---- MODULE Spec2Model ----
(***************************************************************************)
(* Document tree construction core of src/html5/parser/document.rs:        *)
(* Document (tree mutation, named-id index), DocumentHandle (immediate     *)
(* TreeBuilder) and DocumentTaskQueue (deferred TreeBuilder).              *)
(*                                                                         *)
(* Strings that the code inspects character by character (attribute        *)
(* values) are sequences of one-character strings; strings that are only   *)
(* compared (keys, names, contents) are TLA+ strings.  Maps (attributes,   *)
(* named_id_elements) are sets of <<key, value>> pairs with unique keys.   *)
(***************************************************************************)
EXTENDS Integers, Sequences, FiniteSets, TLC

\* ------------------------------------------------------------------ bounds
\* Number of nodes the store may hold (root included).
MaxNodes == 3
\* Largest position a caller passes to an attach.
MaxPosition == 2
\* Number of calls made on the DocumentHandle in one run.
MaxCalls == 4
\* Number of calls made on the DocumentTaskQueue in one run, flushes apart.
MaxTasks == 3

\* --------------------------------------------------------------- constants
\* Option::None of an Option<NodeId> / Option<usize>.
None == -1
\* NodeId::root()
Root == 0

VARIABLES
    document,   \* the Document behind the DocumentHandle
    queue,      \* the DocumentTaskQueue on that document
    mirror,     \* a second, fresh document that gets the same calls directly
    ids,        \* the NodeIds create_element has returned on either path
    calls,      \* number of calls made so far
    last,       \* the last call: operation, arguments, outcome
    borrows     \* the views of the document that are outstanding

vars == <<document, queue, mirror, ids, calls, last, borrows>>

\* -------------------------------------------------------------- node store

\* arena.get_node(id).is_some()
Resolves(doc, id) == id \in DOMAIN doc.arena.nodes

\* arena.get_node(id) / get_node_by_id(id), for an id that resolves
get_node_by_id(doc, id) == doc.arena.nodes[id]

\* arena.peek_next_id()
peek_next_id(doc) == doc.arena.next_id

\* arena.count_nodes()
count_nodes(doc) == Cardinality(DOMAIN doc.arena.nodes)

\* arena.register_node(node): the node is stored under the next id
register_node(arena, node) ==
    [nodes   |-> arena.nodes @@
                 (arena.next_id :> [node EXCEPT !.id = arena.next_id,
                                                !.is_registered = TRUE]),
     next_id |-> arena.next_id + 1]

\* Node::new_document / new_element / new_text / new_comment: an unregistered
\* node value with the default id, no parent and no children.
NewNode(kind, name, attributes) ==
    [id |-> Root, is_registered |-> FALSE, parent |-> None, children |-> <<>>,
     kind |-> kind, name |-> name, attributes |-> attributes, node_id |-> Root]

\* Document::new(): an empty store, an empty named-id index, no quirks
Document_new ==
    [arena |-> [nodes |-> <<>>, next_id |-> Root],
     named_id_elements |-> {},
     quirks_mode |-> "NoQuirks"]

\* Document::new() followed by DocumentBuilder::new_document's registration
\* of the document root node.
new_document ==
    [Document_new EXCEPT
        !.arena = register_node(@, NewNode("Document", "", {}))]

\* doc with node `id` replaced by `node`
SetNode(doc, id, node) ==
    [doc EXCEPT !.arena.nodes = [doc.arena.nodes EXCEPT ![id] = node]]

\* ------------------------------------------------------------- cycle check

\* has_child(arena, arena.get_node(parent).cloned(), child_id)
RECURSIVE has_child(_, _, _)
has_child(doc, parent, child_id) ==
    IF ~Resolves(doc, parent) THEN FALSE
    ELSE LET ch == get_node_by_id(doc, parent).children IN
         IF ch = <<>> THEN FALSE
         ELSE \E i \in 1..Len(ch) :
                 ch[i] = child_id \/ has_child(doc, ch[i], child_id)

\* Mutant of has_child_recursive: only the direct children are compared.
has_child_direct(doc, parent_id, child_id) ==
    IF ~Resolves(doc, parent_id) THEN FALSE
    ELSE LET ch == get_node_by_id(doc, parent_id).children IN
         \E i \in 1..Len(ch) : ch[i] = child_id

\* has_child_recursive(arena, parent_id, child_id)
has_child_recursive(doc, parent_id, child_id) ==
    IF ~Resolves(doc, parent_id) THEN FALSE
    ELSE LET ch == get_node_by_id(doc, parent_id).children IN
         \E i \in 1..Len(ch) :
             ch[i] = child_id \/ has_child(doc, ch[i], child_id)

\* Mutant of has_cyclic_reference: the two ids are exchanged.
has_cyclic_reference_reversed(doc, node_id, parent_id) ==
    has_child_recursive(doc, parent_id, node_id)

\* Document::has_cyclic_reference
has_cyclic_reference(doc, node_id, parent_id) ==
    has_child_recursive(doc, node_id, parent_id)

\* ------------------------------------------------------ sequence utilities

\* Vec::insert(position, x), 0-based position <= len
InsertAt(s, position, x) ==
    SubSeq(s, 1, position) \o <<x>> \o SubSeq(s, position + 1, Len(s))

\* Vec::retain(|&id| id != x)
RECURSIVE Retain(_, _)
Retain(s, x) ==
    IF s = <<>> THEN <<>>
    ELSE IF Head(s) = x THEN Retain(Tail(s), x)
         ELSE <<Head(s)>> \o Retain(Tail(s), x)

\* ----------------------------------------------------------- tree mutation

\* Mutant of attach_node_to_parent: only an attach of a node to itself is
\* refused.
attach_unchecked(doc, node_id, parent_id, position) ==
    IF parent_id = node_id
    THEN [doc |-> doc, ret |-> FALSE, panic |-> FALSE]
    ELSE
      LET d1 ==
            IF Resolves(doc, parent_id)
            THEN LET p   == get_node_by_id(doc, parent_id)
                     pos == IF position = None THEN Len(p.children)
                            ELSE IF position > Len(p.children)
                                 THEN Len(p.children) ELSE position
                 IN SetNode(doc, parent_id,
                            [p EXCEPT !.children = InsertAt(p.children, pos, node_id)])
            ELSE doc
      IN IF ~Resolves(d1, node_id)
         THEN [doc |-> d1, ret |-> FALSE, panic |-> TRUE]
         ELSE [doc |-> SetNode(d1, node_id,
                               [get_node_by_id(d1, node_id) EXCEPT !.parent = parent_id]),
               ret |-> TRUE, panic |-> FALSE]

\* Mutant of attach_node_to_parent: the node's parent link is not written.
attach_children_only(doc, node_id, parent_id, position) ==
    IF parent_id = node_id \/ has_cyclic_reference(doc, node_id, parent_id)
    THEN [doc |-> doc, ret |-> FALSE, panic |-> FALSE]
    ELSE
      LET d1 ==
            IF Resolves(doc, parent_id)
            THEN LET p   == get_node_by_id(doc, parent_id)
                     pos == IF position = None THEN Len(p.children)
                            ELSE IF position > Len(p.children)
                                 THEN Len(p.children) ELSE position
                 IN SetNode(doc, parent_id,
                            [p EXCEPT !.children = InsertAt(p.children, pos, node_id)])
            ELSE doc
      IN IF ~Resolves(d1, node_id)
         THEN [doc |-> d1, ret |-> FALSE, panic |-> TRUE]
         ELSE [doc |-> d1, ret |-> TRUE, panic |-> FALSE]

\* Document::attach_node_to_parent: [doc, ret, panic]
attach_node_to_parent(doc, node_id, parent_id, position) ==
    IF parent_id = node_id \/ has_cyclic_reference(doc, node_id, parent_id)
    THEN [doc |-> doc, ret |-> FALSE, panic |-> FALSE]
    ELSE
      LET d1 ==
            IF Resolves(doc, parent_id)
            THEN LET p   == get_node_by_id(doc, parent_id)
                     pos == IF position = None THEN Len(p.children)
                            ELSE IF position > Len(p.children)
                                 THEN Len(p.children) ELSE position
                 IN SetNode(doc, parent_id,
                            [p EXCEPT !.children = InsertAt(p.children, pos, node_id)])
            ELSE doc
      IN IF ~Resolves(d1, node_id)
         THEN [doc |-> d1, ret |-> FALSE, panic |-> TRUE]
         ELSE [doc |-> SetNode(d1, node_id,
                               [get_node_by_id(d1, node_id) EXCEPT !.parent = parent_id]),
               ret |-> TRUE, panic |-> FALSE]

\* Mutant of detach_node_from_parent: the parent link is cleared, the
\* parent's children are left as they are.
detach_parent_link_only(doc, node_id) ==
    IF ~Resolves(doc, node_id) THEN [doc |-> doc, panic |-> TRUE]
    ELSE
      LET parent == get_node_by_id(doc, node_id).parent IN
      IF parent = None THEN [doc |-> doc, panic |-> FALSE]
      ELSE IF ~Resolves(doc, parent) THEN [doc |-> doc, panic |-> TRUE]
      ELSE [doc |-> SetNode(doc, node_id,
                            [get_node_by_id(doc, node_id) EXCEPT !.parent = None]),
            panic |-> FALSE]

\* Document::detach_node_from_parent: [doc, panic]
detach_node_from_parent(doc, node_id) ==
    IF ~Resolves(doc, node_id) THEN [doc |-> doc, panic |-> TRUE]
    ELSE
      LET parent == get_node_by_id(doc, node_id).parent IN
      IF parent = None THEN [doc |-> doc, panic |-> FALSE]
      ELSE IF ~Resolves(doc, parent) THEN [doc |-> doc, panic |-> TRUE]
      ELSE
        LET p  == get_node_by_id(doc, parent)
            d1 == SetNode(doc, parent, [p EXCEPT !.children = Retain(p.children, node_id)])
        IN [doc |-> SetNode(d1, node_id,
                            [get_node_by_id(d1, node_id) EXCEPT !.parent = None]),
            panic |-> FALSE]

\* Mutant of relocate: the node is detached and attached again also when
\* parent_id already is its parent.
relocate_always(doc, node_id, parent_id) ==
    IF ~Resolves(doc, node_id) THEN [doc |-> doc, panic |-> TRUE]
    ELSE
      LET d == detach_node_from_parent(doc, node_id) IN
      IF d.panic THEN [doc |-> d.doc, panic |-> TRUE]
      ELSE LET a == attach_node_to_parent(d.doc, node_id, parent_id, None)
           IN [doc |-> a.doc, panic |-> a.panic]

\* Document::relocate: [doc, panic]
relocate(doc, node_id, parent_id) ==
    IF ~Resolves(doc, node_id) THEN [doc |-> doc, panic |-> TRUE]
    ELSE IF ~get_node_by_id(doc, node_id).is_registered
         THEN [doc |-> doc, panic |-> TRUE]
    ELSE IF get_node_by_id(doc, node_id).parent # None
            /\ get_node_by_id(doc, node_id).parent = parent_id
         THEN [doc |-> doc, panic |-> FALSE]
    ELSE
      LET d == detach_node_from_parent(doc, node_id) IN
      IF d.panic THEN [doc |-> d.doc, panic |-> TRUE]
      ELSE LET a == attach_node_to_parent(d.doc, node_id, parent_id, None)
           IN [doc |-> a.doc, panic |-> a.panic]

\* ----------------------------------------------------------------- strings

\* Characters for which char::is_whitespace holds, among those used here.
Whitespace == {" ", "\t", "\n"}

\* Characters for which char::is_alphabetic holds, among those used here.
Alphabetic == {"a", "b", "c", "d", "e", "f", "g", "h", "i", "j", "k", "l", "m",
               "n", "o", "p", "q", "r", "s", "t", "u", "v", "w", "x", "y", "z"}

\* str::contains(pred)
Contains(value, chars) == \E i \in 1..Len(value) : value[i] \in chars

\* Mutant of validate_id_attribute_value: the first character has to be
\* alphabetic.
validate_starts_alphabetic(value) ==
    IF Contains(value, Whitespace) THEN FALSE
    ELSE IF value = <<>> THEN FALSE
    ELSE Head(value) \in Alphabetic

\* Document::validate_id_attribute_value
validate_id_attribute_value(value) ==
    IF Contains(value, Whitespace) THEN FALSE
    ELSE IF value = <<>> THEN FALSE
    ELSE Contains(value, Alphabetic)

\* -------------------------------------------------------------------- maps

\* HashMap::contains_key
contains_key(map, key) == \E e \in map : e[1] = key

\* HashMap::get: the set holding the value, empty when the key is absent
MapGet(map, key) == {e[2] : e \in {x \in map : x[1] = key}}

\* HashMap::insert: replaces the entry of an existing key
MapInsert(map, key, value) == {e \in map : e[1] # key} \cup {<<key, value>>}

\* ------------------------------------------------------------ registration

\* Mutant of add_new_node: the id attribute is indexed without validation.
add_new_node_unvalidated(doc, node) ==
    LET node_named_id ==
            IF node.kind = "Element" THEN MapGet(node.attributes, "id") ELSE {}
        node_id == IF ~node.is_registered THEN doc.arena.next_id ELSE node.id
        d1 == IF ~node.is_registered
              THEN [doc EXCEPT !.arena = register_node(doc.arena, node)]
              ELSE doc
        d2 == IF Resolves(d1, node_id) /\ get_node_by_id(d1, node_id).kind = "Element"
              THEN SetNode(d1, node_id,
                           [get_node_by_id(d1, node_id) EXCEPT !.node_id = node_id])
              ELSE d1
        d3 == [d2 EXCEPT !.named_id_elements =
                  @ \cup {<<v, node_id>> : v \in
                            {w \in node_named_id :
                                ~contains_key(d2.named_id_elements, w)}}]
    IN [doc |-> d3, id |-> node_id]

\* Mutant of add_new_node: the Element payload keeps the default node id.
add_new_node_default_id(doc, node) ==
    LET node_named_id ==
            IF node.kind = "Element" THEN MapGet(node.attributes, "id") ELSE {}
        node_id == IF ~node.is_registered THEN doc.arena.next_id ELSE node.id
        d1 == IF ~node.is_registered
              THEN [doc EXCEPT !.arena = register_node(doc.arena, node)]
              ELSE doc
        d3 == [d1 EXCEPT !.named_id_elements =
                  @ \cup {<<v, node_id>> : v \in
                            {w \in node_named_id :
                                ~contains_key(d1.named_id_elements, w)
                                /\ validate_id_attribute_value(w)}}]
    IN [doc |-> d3, id |-> node_id]

\* Document::add_new_node: [doc, id]
add_new_node(doc, node) ==
    LET node_named_id ==
            IF node.kind = "Element" THEN MapGet(node.attributes, "id") ELSE {}
        node_id == IF ~node.is_registered THEN doc.arena.next_id ELSE node.id
        d1 == IF ~node.is_registered
              THEN [doc EXCEPT !.arena = register_node(doc.arena, node)]
              ELSE doc
        d2 == IF Resolves(d1, node_id) /\ get_node_by_id(d1, node_id).kind = "Element"
              THEN SetNode(d1, node_id,
                           [get_node_by_id(d1, node_id) EXCEPT !.node_id = node_id])
              ELSE d1
        d3 == [d2 EXCEPT !.named_id_elements =
                  @ \cup {<<v, node_id>> : v \in
                            {w \in node_named_id :
                                ~contains_key(d2.named_id_elements, w)
                                /\ validate_id_attribute_value(w)}}]
    IN [doc |-> d3, id |-> node_id]

\* Document::add_node: [doc, id, panic]
\* (a singleton set binds each intermediate result to its value once)
add_node(doc, node, parent_id, position) ==
    CHOOSE out \in UNION {
        {[doc |-> a.doc, id |-> n.id, panic |-> a.panic] :
            a \in {attach_node_to_parent(n.doc, n.id, parent_id, position)}} :
        n \in {add_new_node(doc, node)}} : TRUE

\* DocumentBuilder::new_document_fragment(context), context a node of the
\* document context_doc: [doc, id, panic]
new_document_fragment(context_doc) ==
    LET doc == [Document_new EXCEPT !.quirks_mode =
                    IF context_doc.quirks_mode = "Quirks" THEN "Quirks"
                    ELSE IF context_doc.quirks_mode = "LimitedQuirks"
                         THEN "LimitedQuirks" ELSE @]
    IN add_node(doc, NewNode("Element", "html", {}), Root, None)

\* ------------------------------------------- TreeBuilder for DocumentHandle

\* DocumentHandle::create_element: [doc, id, panic]
create_element(doc, name, parent_id, position) ==
    add_node(doc, NewNode("Element", name, {}), parent_id, position)

\* DocumentHandle::create_text: [doc, id, panic]
create_text(doc, content, parent_id) ==
    add_node(doc, NewNode("Text", content, {}), parent_id, None)

\* DocumentHandle::create_comment: [doc, id, panic]
create_comment(doc, content, parent_id) ==
    add_node(doc, NewNode("Comment", content, {}), parent_id, None)

\* Result<()>: Ok(()) and the three Error::DocumentTask values
Ok == [kind |-> "Ok", node |-> None, value |-> <<>>]
ErrValidation(value) == [kind |-> "Validation", node |-> None, value |-> value]
ErrNotElement(id) == [kind |-> "NotElement", node |-> id, value |-> <<>>]
ErrNotFound(id) == [kind |-> "NotFound", node |-> id, value |-> <<>>]

\* Mutant of message: the texts of the two lookup failures are exchanged.
message_swapped(err) ==
    IF err.kind = "Validation"
    THEN <<"Attribute value '">> \o err.value \o <<"' did not pass validation">>
    ELSE IF err.kind = "NotElement"
    THEN <<"Node ID ", ToString(err.node), " not found">>
    ELSE <<"Node ID ", ToString(err.node), " is not an element">>

\* The String an Error::DocumentTask carries, as the format! calls of
\* insert_attribute build it: a sequence of text pieces, the characters of an
\* attribute value one by one.
message(err) ==
    IF err.kind = "Validation"
    THEN <<"Attribute value '">> \o err.value \o <<"' did not pass validation">>
    ELSE IF err.kind = "NotElement"
    THEN <<"Node ID ", ToString(err.node), " is not an element">>
    ELSE <<"Node ID ", ToString(err.node), " not found">>

\* err.to_string() of an Error::DocumentTask
to_string(err) == <<"document task error: ">> \o message(err)

\* Mutant of insert_attribute: an "id" overwrites the entry the index holds.
insert_attribute_overwrite(doc, key, value, element_id) ==
    IF ~validate_id_attribute_value(value)
    THEN [doc |-> doc, res |-> ErrValidation(value), panic |-> FALSE]
    ELSE IF ~Resolves(doc, element_id)
    THEN [doc |-> doc, res |-> ErrNotFound(element_id), panic |-> FALSE]
    ELSE IF get_node_by_id(doc, element_id).kind # "Element"
    THEN [doc |-> doc, res |-> ErrNotElement(element_id), panic |-> FALSE]
    ELSE
      LET e  == get_node_by_id(doc, element_id)
          d1 == SetNode(doc, element_id,
                        [e EXCEPT !.attributes = MapInsert(e.attributes, key, value)])
      IN IF key = "id"
         THEN [doc |-> [d1 EXCEPT !.named_id_elements = MapInsert(@, value, element_id)],
               res |-> Ok, panic |-> FALSE]
         ELSE [doc |-> d1, res |-> Ok, panic |-> key = "class"]

\* Mutant of insert_attribute: an "id" is indexed before the element is
\* looked up.
insert_attribute_index_first(doc, key, value, element_id) ==
    IF ~validate_id_attribute_value(value)
    THEN [doc |-> doc, res |-> ErrValidation(value), panic |-> FALSE]
    ELSE
      LET d0 == IF key = "id" /\ ~contains_key(doc.named_id_elements, value)
                THEN [doc EXCEPT !.named_id_elements = MapInsert(@, value, element_id)]
                ELSE doc
      IN IF ~Resolves(doc, element_id)
         THEN [doc |-> d0, res |-> ErrNotFound(element_id), panic |-> FALSE]
         ELSE IF get_node_by_id(doc, element_id).kind # "Element"
         THEN [doc |-> d0, res |-> ErrNotElement(element_id), panic |-> FALSE]
         ELSE LET e == get_node_by_id(d0, element_id)
              IN [doc |-> SetNode(d0, element_id,
                                  [e EXCEPT !.attributes =
                                      MapInsert(e.attributes, key, value)]),
                  res |-> Ok, panic |-> key = "class"]

\* DocumentHandle::insert_attribute: [doc, res, panic]
insert_attribute(doc, key, value, element_id) ==
    IF ~validate_id_attribute_value(value)
    THEN [doc |-> doc, res |-> ErrValidation(value), panic |-> FALSE]
    ELSE IF ~Resolves(doc, element_id)
    THEN [doc |-> doc, res |-> ErrNotFound(element_id), panic |-> FALSE]
    ELSE IF get_node_by_id(doc, element_id).kind # "Element"
    THEN [doc |-> doc, res |-> ErrNotElement(element_id), panic |-> FALSE]
    ELSE
      LET e  == get_node_by_id(doc, element_id)
          d1 == SetNode(doc, element_id,
                        [e EXCEPT !.attributes = MapInsert(e.attributes, key, value)])
      IN IF key = "id"
         THEN [doc |-> IF ~contains_key(d1.named_id_elements, value)
                       THEN [d1 EXCEPT !.named_id_elements =
                                MapInsert(@, value, element_id)]
                       ELSE d1,
               res |-> Ok, panic |-> FALSE]
         ELSE IF key = "class"
         THEN [doc |-> d1, res |-> Ok, panic |-> TRUE]
         ELSE [doc |-> d1, res |-> Ok, panic |-> FALSE]

\* ----------------------------------------------------- DocumentTaskQueue

\* DocumentTask::CreateElement / CreateText / CreateComment / InsertAttribute
TaskCreateElement(name, parent_id, position) ==
    [type |-> "CreateElement", name |-> name, parent_id |-> parent_id,
     position |-> position, key |-> "", value |-> <<>>]
TaskCreateText(content, parent_id) ==
    [type |-> "CreateText", name |-> content, parent_id |-> parent_id,
     position |-> None, key |-> "", value |-> <<>>]
TaskCreateComment(content, parent_id) ==
    [type |-> "CreateComment", name |-> content, parent_id |-> parent_id,
     position |-> None, key |-> "", value |-> <<>>]
TaskInsertAttribute(key, value, element_id) ==
    [type |-> "InsertAttribute", name |-> "", parent_id |-> element_id,
     position |-> None, key |-> key, value |-> value]

\* One iteration of flush's loop: [doc, errors, created, panic]; created
\* holds the NodeId the iteration's create_element call returned.
ApplyTask(doc, task) ==
    IF task.type = "CreateElement"
    THEN LET r == create_element(doc, task.name, task.parent_id, task.position)
         IN [doc |-> r.doc, errors |-> <<>>, created |-> <<r.id>>, panic |-> r.panic]
    ELSE IF task.type = "CreateText"
    THEN LET r == create_text(doc, task.name, task.parent_id)
         IN [doc |-> r.doc, errors |-> <<>>, created |-> <<>>, panic |-> r.panic]
    ELSE IF task.type = "CreateComment"
    THEN LET r == create_comment(doc, task.name, task.parent_id)
         IN [doc |-> r.doc, errors |-> <<>>, created |-> <<>>, panic |-> r.panic]
    ELSE LET r == insert_attribute(doc, task.key, task.value, task.parent_id)
         IN [doc |-> r.doc,
             errors |-> IF r.res = Ok THEN <<>> ELSE <<to_string(r.res)>>,
             created |-> <<>>, panic |-> r.panic]

\* Mutant of FlushLoop: the loop ends at the first task that fails.
RECURSIVE FlushLoopHalting(_, _)
FlushLoopHalting(doc, tasks) ==
    IF tasks = <<>>
    THEN [doc |-> doc, errors |-> <<>>, created |-> <<>>, panic |-> FALSE]
    ELSE CHOOSE out \in UNION {
            IF r.panic \/ r.errors # <<>> THEN {r}
            ELSE {[doc |-> rest.doc, errors |-> r.errors \o rest.errors,
                   created |-> r.created \o rest.created, panic |-> rest.panic] :
                     rest \in {FlushLoopHalting(r.doc, Tail(tasks))}} :
            r \in {ApplyTask(doc, Head(tasks))}} : TRUE

\* The loop of DocumentTaskQueue::flush over `tasks`, errors collected in
\* task order; a panic ends it at the task that panicked.  (A singleton set
\* binds each intermediate result to its value once.)
RECURSIVE FlushLoop(_, _)
FlushLoop(doc, tasks) ==
    IF tasks = <<>>
    THEN [doc |-> doc, errors |-> <<>>, created |-> <<>>, panic |-> FALSE]
    ELSE CHOOSE out \in UNION {
            IF r.panic THEN {r}
            ELSE {[doc |-> rest.doc, errors |-> r.errors \o rest.errors,
                   created |-> r.created \o rest.created, panic |-> rest.panic] :
                     rest \in {FlushLoop(r.doc, Tail(tasks))}} :
            r \in {ApplyTask(doc, Head(tasks))}} : TRUE

\* DocumentTaskQueue::create_element: [queue, id]
queue_create_element(q, name, parent_id, position) ==
    [queue |-> [next_node_id |-> q.next_node_id + 1,
                tasks |-> Append(q.tasks, TaskCreateElement(name, parent_id, position))],
     id |-> q.next_node_id]

\* Mutant of queue_create_text: the counter advances for a text task too.
queue_create_text_advancing(q, content, parent_id) ==
    [next_node_id |-> q.next_node_id + 1,
     tasks |-> Append(q.tasks, TaskCreateText(content, parent_id))]

\* DocumentTaskQueue::create_text
queue_create_text(q, content, parent_id) ==
    [q EXCEPT !.tasks = Append(@, TaskCreateText(content, parent_id))]

\* DocumentTaskQueue::create_comment
queue_create_comment(q, content, parent_id) ==
    [q EXCEPT !.tasks = Append(@, TaskCreateComment(content, parent_id))]

\* Mutant of queue_insert_attribute: the value is validated when the task is
\* queued, and a value that fails is refused.
queue_insert_attribute_validating(q, key, value, element_id) ==
    IF validate_id_attribute_value(value)
    THEN [queue |-> [q EXCEPT !.tasks =
                        Append(@, TaskInsertAttribute(key, value, element_id))],
          res   |-> Ok]
    ELSE [queue |-> q, res |-> ErrValidation(value)]

\* DocumentTaskQueue::insert_attribute: [queue, res]
queue_insert_attribute(q, key, value, element_id) ==
    [queue |-> [q EXCEPT !.tasks =
                   Append(@, TaskInsertAttribute(key, value, element_id))],
     res   |-> Ok]

\* DocumentTaskQueue::new
new_queue(doc) == [next_node_id |-> peek_next_id(doc), tasks |-> <<>>]

\* ------------------------------------------------------------------ inputs

\* NodeIds a caller may pass: those the store can hold and one it never holds.
NodeIds == 0..MaxNodes

\* Option<usize> positions a caller may pass.
Positions == {None} \cup (0..MaxPosition)

\* Attribute keys a caller passes: the two special ones and an ordinary one.
Keys == {"id", "class", "title"}

\* Attribute values a caller passes: "myid", "a1", "my id", "".
Values == {<<"m", "y", "i", "d">>, <<"a", "1">>, <<"m", "y", " ", "i", "d">>, <<>>}

\* The record kept of the last call.
Call(op, node, parent, ret, panic) ==
    [op |-> op, node |-> node, parent |-> parent, key |-> "", value |-> <<>>,
     ret |-> ret, res |-> Ok, errors |-> <<>>, panic |-> panic]

\* ----------------------------------------------------------- specification
\* Spec: one document built and restructured through the DocumentHandle.

Init ==
    /\ document = new_document
    /\ queue = new_queue(new_document)
    /\ mirror = new_document
    /\ ids = [queue |-> <<>>, direct |-> <<>>, flushed |-> <<>>]
    /\ calls = 0
    /\ last = Call("new_document", None, None, FALSE, FALSE)
    /\ borrows = [readers |-> 0, writer |-> FALSE]

\* A call is made only while the program has not panicked.
CanCall(max) == ~last.panic /\ calls < max /\ calls' = calls + 1

\* DocumentHandle::create_element(name, parent_id, position, namespace)
CreateElement(name, parent_id, position) ==
    /\ CanCall(MaxCalls)
    /\ peek_next_id(document) < MaxNodes
    /\ \E r \in {create_element(document, name, parent_id, position)} :
       /\ document' = r.doc
       /\ last' = Call("create_element", r.id, parent_id, FALSE, r.panic)
    /\ UNCHANGED <<queue, mirror, ids, borrows>>

\* DocumentHandle::attach_node_to_parent(node_id, parent_id, position)
AttachNodeToParent(node_id, parent_id, position) ==
    /\ CanCall(MaxCalls)
    /\ \E r \in {attach_node_to_parent(document, node_id, parent_id, position)} :
       /\ document' = r.doc
       /\ last' = Call("attach_node_to_parent", node_id, parent_id, r.ret, r.panic)
    /\ UNCHANGED <<queue, mirror, ids, borrows>>

\* DocumentHandle::detach_node_from_parent(node_id); the record keeps the
\* parent the node had when the call was made
DetachNodeFromParent(node_id) ==
    /\ CanCall(MaxCalls)
    /\ \E r \in {detach_node_from_parent(document, node_id)} :
       /\ document' = r.doc
       /\ last' = Call("detach_node_from_parent", node_id,
                       IF Resolves(document, node_id)
                       THEN get_node_by_id(document, node_id).parent ELSE None,
                       FALSE, r.panic)
    /\ UNCHANGED <<queue, mirror, ids, borrows>>

\* DocumentHandle::relocate(node_id, parent_id)
Relocate(node_id, parent_id) ==
    /\ CanCall(MaxCalls)
    /\ \E r \in {relocate(document, node_id, parent_id)} :
       /\ document' = r.doc
       /\ last' = Call("relocate", node_id, parent_id, FALSE, r.panic)
    /\ UNCHANGED <<queue, mirror, ids, borrows>>

\* DocumentHandle::create_comment(content, parent_id)
CreateComment(content, parent_id) ==
    /\ CanCall(MaxCalls)
    /\ peek_next_id(document) < MaxNodes
    /\ \E r \in {create_comment(document, content, parent_id)} :
       /\ document' = r.doc
       /\ last' = Call("create_comment", r.id, parent_id, FALSE, r.panic)
    /\ UNCHANGED <<queue, mirror, ids, borrows>>

\* DocumentHandle::add_node(Node::new_element(doc, name, attributes, ns),
\* parent_id, position)
AddNode(name, attributes, parent_id, position) ==
    /\ CanCall(MaxCalls)
    /\ peek_next_id(document) < MaxNodes
    /\ \E r \in {add_node(document, NewNode("Element", name, attributes),
                         parent_id, position)} :
       /\ document' = r.doc
       /\ last' = [Call("add_node", r.id, parent_id, FALSE, r.panic)
                       EXCEPT !.key = "id",
                              !.value = CHOOSE v \in MapGet(attributes, "id") : TRUE]
    /\ UNCHANGED <<queue, mirror, ids, borrows>>

\* DocumentHandle::insert_attribute(key, value, element_id)
InsertAttribute(key, value, element_id) ==
    /\ CanCall(MaxCalls)
    /\ \E r \in {insert_attribute(document, key, value, element_id)} :
       /\ document' = r.doc
       /\ last' = [Call("insert_attribute", element_id, None, FALSE, r.panic)
                       EXCEPT !.key = key, !.value = value, !.res = r.res]
    /\ UNCHANGED <<queue, mirror, ids, borrows>>

Next ==
    \/ \E parent_id \in NodeIds, position \in Positions :
           CreateElement("div", parent_id, position)
    \/ \E node_id \in NodeIds, parent_id \in NodeIds, position \in Positions :
           AttachNodeToParent(node_id, parent_id, position)
    \/ \E node_id \in NodeIds : DetachNodeFromParent(node_id)
    \/ \E node_id \in NodeIds, parent_id \in NodeIds : Relocate(node_id, parent_id)

Spec == Init /\ [][Next]_vars

\* SpecAttr: elements and comments under the root, elements that carry an
\* "id" attribute when added, and attributes inserted through the handle.
NextAttr ==
    \/ CreateElement("div", Root, None)
    \/ CreateComment("hey", Root)
    \/ \E value \in Values : AddNode("div", {<<"id", value>>}, Root, None)
    \/ \E key \in Keys, value \in Values, element_id \in NodeIds :
           InsertAttribute(key, value, element_id)

SpecAttr == Init /\ [][NextAttr]_vars

\* SpecQueue: a parser drives a DocumentTaskQueue and, with the same calls, a
\* DocumentHandle on a second fresh document (as tests::document_task_queue
\* and tests::document_tree_builder do).  A call names its parent or element
\* by a handle: 0 is the root, k > 0 is what the k-th create_element call
\* returned on the path the call is made on.

\* Handles the parser holds so far
Handles == 0..Len(ids.queue)

\* The NodeId a handle stands for on the queue path and on the direct path
QueueId(h) == IF h = 0 THEN Root ELSE ids.queue[h]
DirectId(h) == IF h = 0 THEN Root ELSE ids.direct[h]

\* A further call may be made on the queue.
CanQueue == ~last.panic /\ calls < MaxTasks /\ calls' = calls + 1

\* create_element(name, parent, position, namespace) on both paths
BuildElement(name, h, position) ==
    /\ CanQueue
    /\ \E q \in {queue_create_element(queue, name, QueueId(h), position)},
          d \in {create_element(mirror, name, DirectId(h), position)} :
          /\ queue' = q.queue
          /\ mirror' = d.doc
          /\ ids' = [ids EXCEPT !.queue = Append(@, q.id), !.direct = Append(@, d.id)]
          /\ last' = Call("create_element", q.id, QueueId(h), FALSE, d.panic)
    /\ UNCHANGED <<document, borrows>>

\* create_text(content, parent) on both paths
BuildText(content, h) ==
    /\ CanQueue
    /\ \E d \in {create_text(mirror, content, DirectId(h))} :
          /\ queue' = queue_create_text(queue, content, QueueId(h))
          /\ mirror' = d.doc
          /\ last' = Call("create_text", None, QueueId(h), FALSE, d.panic)
    /\ UNCHANGED <<document, ids, borrows>>

\* create_comment(content, parent) on both paths
BuildComment(content, h) ==
    /\ CanQueue
    /\ \E d \in {create_comment(mirror, content, DirectId(h))} :
          /\ queue' = queue_create_comment(queue, content, QueueId(h))
          /\ mirror' = d.doc
          /\ last' = Call("create_comment", None, QueueId(h), FALSE, d.panic)
    /\ UNCHANGED <<document, ids, borrows>>

\* insert_attribute(key, value, element) on both paths; res is the result of
\* the direct call
BuildAttribute(key, value, h) ==
    /\ CanQueue
    /\ \E d \in {insert_attribute(mirror, key, value, DirectId(h))} :
          /\ queue' = queue_insert_attribute(queue, key, value, QueueId(h)).queue
          /\ mirror' = d.doc
          /\ last' = [Call("insert_attribute", QueueId(h), None, FALSE, d.panic)
                         EXCEPT !.key = key, !.value = value, !.res = d.res]
    /\ UNCHANGED <<document, ids, borrows>>

\* Mutant of Flush: the tasks stay in the queue.
FlushKeepingTasks ==
    /\ ~last.panic
    /\ \E r \in {FlushLoop(document, queue.tasks)} :
       /\ document' = r.doc
       /\ queue' = queue
       /\ ids' = [ids EXCEPT !.flushed = @ \o r.created]
       /\ last' = [Call("flush", None, None, FALSE, r.panic)
                      EXCEPT !.errors = r.errors]
    /\ UNCHANGED <<mirror, calls, borrows>>

\* DocumentTaskQueue::flush()
Flush ==
    /\ ~last.panic
    /\ \E r \in {FlushLoop(document, queue.tasks)} :
       /\ document' = r.doc
       /\ queue' = IF r.panic THEN queue ELSE [queue EXCEPT !.tasks = <<>>]
       /\ ids' = [ids EXCEPT !.flushed = @ \o r.created]
       /\ last' = [Call("flush", None, None, FALSE, r.panic)
                      EXCEPT !.errors = r.errors]
    /\ UNCHANGED <<mirror, calls, borrows>>

NextQueue ==
    \/ \E h \in Handles, position \in {None, 0} : BuildElement("div", h, position)
    \/ \E h \in Handles : BuildText("hey", h)
    \/ \E h \in Handles : BuildComment("hey", h)
    \/ \E key \in {"id", "title"}, value \in {<<"m", "y", "i", "d">>, <<"m", "y", " ", "i", "d">>},
          h \in Handles : BuildAttribute(key, value, h)
    \/ Flush

SpecQueue == Init /\ [][NextQueue]_vars

\* SpecFragment: a document is built, its quirks mode is set, and document
\* fragments are made for its nodes; `mirror` holds the latest fragment.

\* The values of QuirksMode
QuirksModes == {"NoQuirks", "Quirks", "LimitedQuirks"}

\* document.get_mut().quirks_mode = mode
SetQuirksMode(mode) ==
    /\ CanCall(MaxCalls)
    /\ document' = [document EXCEPT !.quirks_mode = mode]
    /\ last' = Call("set_quirks_mode", None, None, FALSE, FALSE)
    /\ UNCHANGED <<queue, mirror, ids, borrows>>

\* DocumentBuilder::new_document_fragment(context), context the node
\* context_id of the document
NewDocumentFragment(context_id) ==
    /\ CanCall(MaxCalls)
    /\ Resolves(document, context_id)
    /\ \E r \in {new_document_fragment(document)} :
          /\ mirror' = r.doc
          /\ last' = Call("new_document_fragment", r.id, context_id, FALSE, r.panic)
    /\ UNCHANGED <<document, queue, ids, borrows>>

NextFragment ==
    \/ \E parent_id \in NodeIds, position \in Positions :
           CreateElement("div", parent_id, position)
    \/ \E mode \in QuirksModes : SetQuirksMode(mode)
    \/ \E context_id \in NodeIds : NewDocumentFragment(context_id)

SpecFragment == Init /\ [][NextFragment]_vars

\* SpecBuild: a new document is built only by create_element, create_text and
\* create_comment on the handle, each under a parent that is stored.

\* DocumentHandle::create_element(name, parent_id, position, namespace)
\* under a stored parent
BuildUnderStored(name, parent_id, position) ==
    /\ CanCall(MaxCalls)
    /\ Resolves(document, parent_id)
    /\ \E r \in {create_element(document, name, parent_id, position)} :
       /\ document' = r.doc
       /\ last' = Call("create_element", r.id, parent_id, FALSE, r.panic)
    /\ UNCHANGED <<queue, mirror, ids, borrows>>

\* DocumentHandle::create_text(content, parent_id) under a stored parent
TextUnderStored(content, parent_id) ==
    /\ CanCall(MaxCalls)
    /\ Resolves(document, parent_id)
    /\ \E r \in {create_text(document, content, parent_id)} :
       /\ document' = r.doc
       /\ last' = Call("create_text", r.id, parent_id, FALSE, r.panic)
    /\ UNCHANGED <<queue, mirror, ids, borrows>>

\* DocumentHandle::create_comment(content, parent_id) under a stored parent
CommentUnderStored(content, parent_id) ==
    /\ CanCall(MaxCalls)
    /\ Resolves(document, parent_id)
    /\ \E r \in {create_comment(document, content, parent_id)} :
       /\ document' = r.doc
       /\ last' = Call("create_comment", r.id, parent_id, FALSE, r.panic)
    /\ UNCHANGED <<queue, mirror, ids, borrows>>

NextBuild ==
    \/ \E parent_id \in DOMAIN document.arena.nodes, position \in Positions :
           BuildUnderStored("div", parent_id, position)
    \/ \E parent_id \in DOMAIN document.arena.nodes : TextUnderStored("hey", parent_id)
    \/ \E parent_id \in DOMAIN document.arena.nodes : CommentUnderStored("hey", parent_id)

SpecBuild == Init /\ [][NextBuild]_vars

\* SpecIds: elements get candidate id values, by insert_attribute on a stored
\* element and as an attribute the element carries when it is added.

\* Candidate ids: "", "123", "my id", "myid", "1a", "a1", " ".
IdValues ==
    {<<>>, <<"1", "2", "3">>, <<"m", "y", " ", "i", "d">>, <<"m", "y", "i", "d">>,
     <<"1", "a">>, <<"a", "1">>, <<" ">>}

\* The element that is created first
FirstElement == Root + 1

NextIds ==
    \/ CreateElement("div", Root, None)
    \/ \E value \in IdValues : AddNode("div", {<<"id", value>>}, Root, None)
    \/ \E value \in IdValues : InsertAttribute("id", value, FirstElement)

SpecIds == Init /\ [][NextIds]_vars

\* SpecTasks: a DocumentTaskQueue is loaded with tasks that name their
\* targets by NodeId, as tests::task_queue_insert_attribute_failues does, and
\* flushed any number of times.

\* DocumentTaskQueue::create_element(name, parent_id, position, namespace)
QueueCreateElement(name, parent_id, position) ==
    /\ CanQueue
    /\ \E q \in {queue_create_element(queue, name, parent_id, position)} :
          /\ queue' = q.queue
          /\ ids' = [ids EXCEPT !.queue = Append(@, q.id)]
          /\ last' = Call("queue_create_element", q.id, parent_id, FALSE, FALSE)
    /\ UNCHANGED <<document, mirror, borrows>>

\* DocumentTaskQueue::create_comment(content, parent_id)
QueueCreateComment(content, parent_id) ==
    /\ CanQueue
    /\ queue' = queue_create_comment(queue, content, parent_id)
    /\ last' = Call("queue_create_comment", None, parent_id, FALSE, FALSE)
    /\ UNCHANGED <<document, mirror, ids, borrows>>

\* DocumentTaskQueue::create_text(content, parent_id)
QueueCreateText(content, parent_id) ==
    /\ CanQueue
    /\ queue' = queue_create_text(queue, content, parent_id)
    /\ last' = Call("queue_create_text", None, parent_id, FALSE, FALSE)
    /\ UNCHANGED <<document, mirror, ids, borrows>>

\* DocumentTaskQueue::insert_attribute(key, value, element_id)
QueueInsertAttribute(key, value, element_id) ==
    /\ CanQueue
    /\ \E q \in {queue_insert_attribute(queue, key, value, element_id)} :
          /\ queue' = q.queue
          /\ last' = [Call("queue_insert_attribute", element_id, None, FALSE, FALSE)
                         EXCEPT !.key = key, !.value = value, !.res = q.res]
    /\ UNCHANGED <<document, mirror, ids, borrows>>

NextTasks ==
    \/ QueueCreateElement("div", Root, None)
    \/ QueueCreateText("hey", Root)
    \/ QueueCreateComment("hey", Root)
    \/ \E value \in {<<"m", "y", "i", "d">>, <<"m", "y", " ", "i", "d">>},
          element_id \in NodeIds : QueueInsertAttribute("id", value, element_id)
    \/ Flush

SpecTasks == Init /\ [][NextTasks]_vars

\* SpecViews: callers take and drop views of the document through clones of
\* its handle, and meanwhile create elements on it through the handle and
\* through a task queue whose tasks all are CreateElement tasks.

\* DocumentHandle::get(): RefCell::borrow, [borrows, panic]
get(b) ==
    IF b.writer THEN [borrows |-> b, panic |-> TRUE]
    ELSE [borrows |-> [b EXCEPT !.readers = @ + 1], panic |-> FALSE]

\* Mutant of get_mut: a mutable view is handed out beside read views.
get_mut_beside_readers(b) ==
    IF b.writer THEN [borrows |-> b, panic |-> TRUE]
    ELSE [borrows |-> [b EXCEPT !.writer = TRUE], panic |-> FALSE]

\* DocumentHandle::get_mut(): RefCell::borrow_mut, [borrows, panic]
get_mut(b) ==
    IF b.writer \/ b.readers > 0 THEN [borrows |-> b, panic |-> TRUE]
    ELSE [borrows |-> [b EXCEPT !.writer = TRUE], panic |-> FALSE]

\* let view = handle.get();  the view stays with the caller
Get ==
    /\ CanCall(MaxCalls)
    /\ \E g \in {get(borrows)} :
          /\ borrows' = g.borrows
          /\ last' = Call("get", None, None, FALSE, g.panic)
    /\ UNCHANGED <<document, queue, mirror, ids>>

\* let view = handle.get_mut();  the view stays with the caller
GetMut ==
    /\ CanCall(MaxCalls)
    /\ \E g \in {get_mut(borrows)} :
          /\ borrows' = g.borrows
          /\ last' = Call("get_mut", None, None, FALSE, g.panic)
    /\ UNCHANGED <<document, queue, mirror, ids>>

\* A view the caller holds goes out of scope.
DropView ==
    /\ ~last.panic
    /\ \/ borrows.readers > 0 /\ borrows' = [borrows EXCEPT !.readers = @ - 1]
       \/ borrows.writer /\ borrows' = [borrows EXCEPT !.writer = FALSE]
    /\ last' = Call("drop", None, None, FALSE, FALSE)
    /\ UNCHANGED <<document, queue, mirror, ids, calls>>

\* DocumentHandle::create_element through a clone of the handle: the mutable
\* view it asks for is dropped when the call returns
HandleCreateElement(name, parent_id, position) ==
    /\ CanCall(MaxCalls)
    /\ peek_next_id(document) < MaxNodes
    /\ \E g \in {get_mut(borrows)} :
          IF g.panic
          THEN /\ document' = document
               /\ last' = Call("handle_create_element", None, parent_id, FALSE, TRUE)
          ELSE \E r \in {create_element(document, name, parent_id, position)} :
                  /\ document' = r.doc
                  /\ last' = Call("handle_create_element", r.id, parent_id,
                                  FALSE, r.panic)
    /\ UNCHANGED <<queue, mirror, ids, borrows>>

\* DocumentTaskQueue::flush() of a queue of CreateElement tasks: the first
\* task asks for a mutable view through the queue's clone of the handle
ViewFlush ==
    /\ ~last.panic
    /\ \E g \in {IF queue.tasks = <<>> THEN [borrows |-> borrows, panic |-> FALSE]
                  ELSE get_mut(borrows)} :
          IF g.panic
          THEN /\ document' = document
               /\ last' = Call("view_flush", None, None, FALSE, TRUE)
               /\ UNCHANGED <<queue, ids>>
          ELSE \E r \in {FlushLoop(document, queue.tasks)} :
                  /\ document' = r.doc
                  /\ queue' = IF r.panic THEN queue ELSE [queue EXCEPT !.tasks = <<>>]
                  /\ ids' = [ids EXCEPT !.flushed = @ \o r.created]
                  /\ last' = [Call("view_flush", None, None, FALSE, r.panic)
                                 EXCEPT !.errors = r.errors]
    /\ UNCHANGED <<mirror, calls, borrows>>

NextViews ==
    \/ Get
    \/ GetMut
    \/ DropView
    \/ \E parent_id \in NodeIds : HandleCreateElement("div", parent_id, None)
    \/ QueueCreateElement("div", Root, None)
    \/ ViewFlush

SpecViews == Init /\ [][NextViews]_vars

\* ---------------------------------------------------------- tree relations

\* The ids a sequence holds
Range(s) == {s[i] : i \in 1..Len(s)}

\* The ids in node n's children list (none when n does not resolve)
ChildIds(doc, n) ==
    IF Resolves(doc, n) THEN Range(get_node_by_id(doc, n).children) ELSE {}

\* Number of places of the children list of p that hold c
Occurrences(doc, p, c) ==
    Cardinality({i \in 1..Len(get_node_by_id(doc, p).children) :
                    get_node_by_id(doc, p).children[i] = c})

\* The ids reached from the set S in at most k further children links
RECURSIVE ReachDown(_, _, _)
ReachDown(doc, S, k) ==
    IF k = 0 THEN S
    ELSE ReachDown(doc, S \cup UNION {ChildIds(doc, n) : n \in S}, k - 1)

\* The descendants of n: reached by one or more children links
Descendants(doc, n) == ReachDown(doc, ChildIds(doc, n), count_nodes(doc))

\* The parent link of n, as a set (empty: no parent, or n does not resolve)
ParentIds(doc, n) ==
    IF Resolves(doc, n) /\ get_node_by_id(doc, n).parent # None
    THEN {get_node_by_id(doc, n).parent} ELSE {}

\* The ids reached from the set S in at most k further parent links
RECURSIVE ReachUp(_, _, _)
ReachUp(doc, S, k) ==
    IF k = 0 THEN S
    ELSE ReachUp(doc, S \cup UNION {ParentIds(doc, n) : n \in S}, k - 1)

\* The ancestors of n: reached by one or more parent links
Ancestors(doc, n) == ReachUp(doc, ParentIds(doc, n), count_nodes(doc))

\* The ids of the stored nodes
Stored(doc) == DOMAIN doc.arena.nodes

\* The last call ran to completion (it did not panic).
Completed == ~last.panic

\* ------------------------------------------------------------------ claims

\* C3: after every completed operation, for all stored nodes c and p,
\* c is in p.children if and only if c.parent = p.
C3_ParentChildSymmetry ==
    Completed =>
        \A c \in Stored(document), p \in Stored(document) :
            (c \in ChildIds(document, p)) <=> (get_node_by_id(document, c).parent = p)

\* C4: after every completed operation a NodeId appears at most once in the
\* children lists of the whole document.
C4_TreeNotGraph ==
    Completed =>
        \A c \in NodeIds :
            /\ Cardinality({p \in Stored(document) : c \in ChildIds(document, p)}) <= 1
            /\ \A p \in Stored(document) : Occurrences(document, p, c) <= 1

\* C5: no node is its own ancestor: neither the parent links nor the children
\* links lead from a node back to it.
C5_Acyclic ==
    Completed =>
        \A n \in Stored(document) :
            /\ n \notin Ancestors(document, n)
            /\ n \notin Descendants(document, n)

\* The step is a call of attach_node_to_parent.
AttachStep == calls' = calls + 1 /\ last'.op = "attach_node_to_parent"

\* C6: attach_node_to_parent(N, D, position) with D = N or D a descendant of N
\* returns false and leaves the whole document unchanged.
C6_CycleRejection ==
    [][(AttachStep /\ (last'.parent = last'.node
                       \/ last'.parent \in Descendants(document, last'.node)))
       => (~last'.ret /\ ~last'.panic /\ document' = document)]_vars

\* C6 witness: an attach of N under a descendant that is not a child of N
\* has been refused.
C6_Witness ==
    /\ last.op = "attach_node_to_parent"
    /\ ~last.ret /\ ~last.panic
    /\ last.parent \in Descendants(document, last.node)
    /\ last.parent \notin ChildIds(document, last.node)

\* C7: whenever attach_node_to_parent(node, parent, position) returns true,
\* node is in parent.children at index min(position, previous length) (last
\* when no position is given), node.parent = parent, and the parent's
\* previous children keep their order.
C7_AttachPostcondition ==
    [][\A position \in Positions :
        (/\ AttachStep
         /\ last'.ret
         /\ document' = attach_node_to_parent(document, last'.node, last'.parent,
                                              position).doc)
        => /\ Resolves(document', last'.parent)
           /\ LET old == get_node_by_id(document, last'.parent).children
                  new == get_node_by_id(document', last'.parent).children
                  idx == IF position = None \/ position > Len(old)
                         THEN Len(old) ELSE position
              IN /\ Len(new) = Len(old) + 1
                 /\ new[idx + 1] = last'.node
                 /\ SubSeq(new, 1, idx) \o SubSeq(new, idx + 2, Len(new)) = old
           /\ get_node_by_id(document', last'.node).parent = last'.parent]_vars

\* The tree below node n: payloads and the order of the children, no NodeIds
RECURSIVE Tree(_, _)
Tree(doc, n) ==
    LET node == get_node_by_id(doc, n) IN
    [kind |-> node.kind, name |-> node.name, attributes |-> node.attributes,
     children |-> [i \in 1..Len(node.children) |-> Tree(doc, node.children[i])]]

\* C1: the same sequence of Tree-Builder calls, issued to the queue and then
\* flushed, and issued directly to a handle on a fresh document, yields
\* structurally identical trees.
C1_QueueDirectEquivalence ==
    (last.op = "flush" /\ Completed) => Tree(document, Root) = Tree(mirror, Root)

\* C2: every NodeId the queue's create_element returned is the NodeId the
\* element of that task receives when the queue is flushed.
C2_PredictedIdsValid ==
    Completed =>
        \A k \in 1..Len(ids.flushed) : ids.flushed[k] = ids.queue[k]

\* The attributes of every stored node and the named-id index
AttrState(doc) ==
    [attributes |-> [n \in Stored(doc) |-> get_node_by_id(doc, n).attributes],
     index      |-> doc.named_id_elements]

\* The step is a direct call of insert_attribute.
InsertAttributeStep == calls' = calls + 1 /\ last'.op = "insert_attribute"

\* C8: once the named-id index maps s to n it keeps doing so, and a later
\* insert_attribute("id", s, m) on an element returns Ok.
C8_FirstWins ==
    [][/\ \A e \in document.named_id_elements : e \in document'.named_id_elements
       /\ (/\ InsertAttributeStep
           /\ last'.key = "id"
           /\ contains_key(document.named_id_elements, last'.value)
           /\ Resolves(document, last'.node)
           /\ get_node_by_id(document, last'.node).kind = "Element")
          => (last'.res = Ok /\ ~last'.panic)]_vars

\* C8 witness: insert_attribute("id", s, m) has returned Ok while the index
\* maps s to another element.
C8_Witness ==
    /\ last.op = "insert_attribute" /\ last.key = "id" /\ last.res = Ok
    /\ \E e \in document.named_id_elements :
           e[1] = last.value /\ e[2] # last.node
    /\ <<"id", last.value>> \in get_node_by_id(document, last.node).attributes

\* C9: direct insert_attribute(key, value, element) returns a task error
\* exactly when element does not resolve, or is not an Element, or key is "id"
\* and value fails id validation; otherwise (key other than "class") it
\* returns Ok and the element's attributes map key to value.
C9_InsertAttributeErrors ==
    last.op = "insert_attribute" =>
        LET bad == \/ ~Resolves(document, last.node)
                   \/ get_node_by_id(document, last.node).kind # "Element"
                   \/ (last.key = "id" /\ ~validate_id_attribute_value(last.value))
        IN /\ (last.res # Ok) <=> bad
           /\ (~bad /\ last.key # "class")
                 => /\ last.res = Ok
                    /\ <<last.key, last.value>>
                           \in get_node_by_id(document, last.node).attributes

\* C10: whenever insert_attribute, called directly or replayed by flush,
\* yields a task error, no element's attributes and no named-id index entry
\* changes.
C10_ErrorLeavesStateUnchanged ==
    [][/\ (InsertAttributeStep /\ last'.res # Ok)
          => AttrState(mirror') = AttrState(mirror)
       /\ (last'.op = "flush")
          => /\ document' = FlushLoop(document, queue.tasks).doc
             /\ \A i \in 1..Len(queue.tasks) :
                    \A pre \in {FlushLoop(document, SubSeq(queue.tasks, 1, i - 1)).doc} :
                        \A r \in {ApplyTask(pre, queue.tasks[i])} :
                            r.errors # <<>> => AttrState(r.doc) = AttrState(pre)]_vars

\* C10 witness: a flush that created a node has reported two failed
\* insert_attribute tasks.
C10_Witness ==
    /\ last.op = "flush" /\ Len(last.errors) >= 2
    /\ count_nodes(document) > 1

\* The rendered texts of the three task errors
TextNotElement(n) ==
    <<"document task error: ", "Node ID ", ToString(n), " is not an element">>
TextNotFound(n) ==
    <<"document task error: ", "Node ID ", ToString(n), " not found">>
TextValidation(v) ==
    <<"document task error: ", "Attribute value '">> \o v
        \o <<"' did not pass validation">>

\* The document to which flush applies task i of the queue
DocBeforeTask(i) == FlushLoop(document, SubSeq(queue.tasks, 1, i - 1)).doc

\* The queued tasks that are attribute insertions
AttributeTasks ==
    {i \in 1..Len(queue.tasks) : queue.tasks[i].type = "InsertAttribute"}

\* The step is a flush of the queue.
FlushStep == last'.op = "flush" /\ document' = FlushLoop(document, queue.tasks).doc

\* The errors a replayed insert_attribute task has to report: the validation
\* text when the value fails validation, else the not-found text when the
\* target does not resolve, else the not-an-element text when it is not an
\* Element, else none.
ExpectedErrors(pre, task) ==
    IF ~validate_id_attribute_value(task.value)
    THEN <<TextValidation(task.value)>>
    ELSE IF ~Resolves(pre, task.parent_id)
    THEN <<TextNotFound(task.parent_id)>>
    ELSE IF get_node_by_id(pre, task.parent_id).kind # "Element"
    THEN <<TextNotElement(task.parent_id)>>
    ELSE <<>>

\* C11 (as stated): the error of an insert_attribute replayed by flush is the
\* not-an-element text when the target resolves to a non-Element node, the
\* not-found text when the target does not resolve, and the validation text
\* when the value fails validation.
C11_ErrorTextsAsStated ==
    [][FlushStep =>
        \A i \in AttributeTasks :
            \E pre \in {DocBeforeTask(i)} :
            \E r \in {ApplyTask(pre, queue.tasks[i])} :
            LET task == queue.tasks[i] IN
            /\ (Resolves(pre, task.parent_id)
                  /\ get_node_by_id(pre, task.parent_id).kind # "Element")
               => r.errors = <<TextNotElement(task.parent_id)>>
            /\ ~Resolves(pre, task.parent_id)
               => r.errors = <<TextNotFound(task.parent_id)>>
            /\ ~validate_id_attribute_value(task.value)
               => r.errors = <<TextValidation(task.value)>>]_vars

\* C11 (amended): a task error is rendered as "document task error: " followed
\* by the validation text when the value fails validation, otherwise by the
\* not-found text when the target does not resolve, otherwise by the
\* not-an-element text when the target is not an Element; flush returns no
\* other text.
C11_ErrorTexts ==
    [][FlushStep =>
        /\ \A i \in AttributeTasks :
              \E pre \in {DocBeforeTask(i)} :
                  ApplyTask(pre, queue.tasks[i]).errors
                      = ExpectedErrors(pre, queue.tasks[i])
        /\ \A k \in 1..Len(last'.errors) :
              \E i \in AttributeTasks :
                  <<last'.errors[k]>> = ExpectedErrors(DocBeforeTask(i), queue.tasks[i])]_vars

\* C11 witness: one flush has returned a not-an-element, a not-found and a
\* validation text.
C11_Witness ==
    /\ last.op = "flush"
    /\ \E n \in NodeIds : \E i \in 1..Len(last.errors) :
           last.errors[i] = TextNotElement(n)
    /\ \E n \in NodeIds : \E i \in 1..Len(last.errors) :
           last.errors[i] = TextNotFound(n)
    /\ \E i \in 1..Len(last.errors) :
           last.errors[i] = TextValidation(<<"m", "y", " ", "i", "d">>)

\* The document after the first i queued tasks were applied one after the
\* other, each with the primitive of the immediate path, starting from doc
RECURSIVE Replayed(_, _, _)
Replayed(doc, tasks, i) ==
    IF i = 0 THEN doc
    ELSE CHOOSE out \in {ApplyTask(pre, tasks[i]).doc :
                            pre \in {Replayed(doc, tasks, i - 1)}} : TRUE

\* Task i is an insert_attribute that fails on the document the first i - 1
\* tasks have produced.
Fails(doc, tasks, i) ==
    /\ tasks[i].type = "InsertAttribute"
    /\ insert_attribute(Replayed(doc, tasks, i - 1), tasks[i].key,
                        tasks[i].value, tasks[i].parent_id).res # Ok

\* The messages of the failing tasks among the first i, in task order
RECURSIVE Messages(_, _, _)
Messages(doc, tasks, i) ==
    IF i = 0 THEN <<>>
    ELSE Messages(doc, tasks, i - 1)
            \o (IF Fails(doc, tasks, i)
                THEN <<to_string(insert_attribute(Replayed(doc, tasks, i - 1),
                                                  tasks[i].key, tasks[i].value,
                                                  tasks[i].parent_id).res)>>
                ELSE <<>>)

\* C12: flush applies the queued tasks in enqueue order, a failing task does
\* not keep a later task from being applied, and the returned list holds
\* exactly one message per failing task, in task order.
C12_FlushReplaysAll ==
    [][(last'.op = "flush" /\ ~last'.panic) =>
        /\ document' = Replayed(document, queue.tasks, Len(queue.tasks))
        /\ last'.errors = Messages(document, queue.tasks, Len(queue.tasks))
        /\ Len(last'.errors)
              = Cardinality({i \in 1..Len(queue.tasks) :
                                Fails(document, queue.tasks, i)})]_vars

\* C12 witness: a flush has reported that node 1 was not found and has gone
\* on to create node 1 by a later task.
C12_Witness ==
    /\ last.op = "flush"
    /\ \E i \in 1..Len(last.errors) : last.errors[i] = TextNotFound(1)
    /\ Resolves(document, 1)

\* The calls that load the queue
QueueOps == {"queue_create_element", "queue_create_text",
             "queue_create_comment", "queue_insert_attribute"}

\* The queued tasks that create a node
CreateTasks ==
    {i \in 1..Len(queue.tasks) :
        queue.tasks[i].type \in {"CreateElement", "CreateText", "CreateComment"}}

\* C13: the queue's create_element, create_text, create_comment and
\* insert_attribute leave the target document unchanged, the queue's
\* insert_attribute returns Ok whatever its arguments, and a flush makes the
\* store's node count grow by exactly the number of queued create tasks.
C13_DeferredMutation ==
    [][/\ (last'.op \in QueueOps) => document' = document
       /\ (last'.op = "queue_insert_attribute") => last'.res = Ok
       /\ (last'.op = "flush" /\ ~last'.panic)
          => count_nodes(document')
                = count_nodes(document) + Cardinality(CreateTasks)]_vars

\* C13 witness: with two create tasks queued and the document still holding
\* only its root, the queue has accepted an insert_attribute whose value fails
\* validation and whose target is not stored.
C13_Witness ==
    /\ last.op = "queue_insert_attribute" /\ last.res = Ok
    /\ ~validate_id_attribute_value(last.value)
    /\ ~Resolves(document, last.node)
    /\ Cardinality(CreateTasks) = 2
    /\ count_nodes(document) = 1

\* C14: the k-th create_element call on the queue returns the store's
\* peek_next_id() at queue construction advanced k - 1 times, and the queue's
\* create_text, create_comment, insert_attribute and flush leave the counter
\* as it is.
C14_PredictionCounter ==
    [][/\ \A k \in 1..Len(ids'.queue) :
              ids'.queue[k] = peek_next_id(new_document) + (k - 1)
       /\ (last'.op = "queue_create_element")
          => /\ Len(ids'.queue) = Len(ids.queue) + 1
             /\ last'.node = ids'.queue[Len(ids'.queue)]
       /\ (last'.op \in {"queue_create_text", "queue_create_comment",
                         "queue_insert_attribute", "flush"})
          => queue'.next_node_id = queue.next_node_id]_vars

\* C14 witness: the first create_element call has returned 1 after a flush
\* had already moved the store's next id past 1.
C14_Witness ==
    /\ last.op = "queue_create_element" /\ last.node = 1
    /\ Len(ids.queue) = 1
    /\ peek_next_id(document) > 1

\* The step is a call of relocate.
RelocateStep == calls' = calls + 1 /\ last'.op = "relocate"

\* C15: relocate(N, P) where N's current parent is already P changes
\* nothing: no node's parent or children change, so N keeps its index among
\* P's children.
C15_RelocateSameParent ==
    [][(/\ RelocateStep
        /\ Resolves(document, last'.node)
        /\ get_node_by_id(document, last'.node).parent = last'.parent)
       => (~last'.panic /\ document' = document)]_vars

\* C15 witness: relocate(N, P) has returned with N, whose parent is P, still
\* the first of several children of P.
C15_Witness ==
    /\ last.op = "relocate" /\ ~last.panic
    /\ Resolves(document, last.node) /\ Resolves(document, last.parent)
    /\ get_node_by_id(document, last.node).parent = last.parent
    /\ Len(get_node_by_id(document, last.parent).children) >= 2
    /\ get_node_by_id(document, last.parent).children[1] = last.node
    /\ Occurrences(document, last.parent, last.node) = 1

\* C16: relocate(N, P) for a registered node N whose parent is not P, with P
\* neither N nor a descendant of N: afterwards N is the last child of P,
\* N.parent = P, N no longer occurs in its former parent's children, the
\* children lists of N and of its descendants are unchanged, and the former
\* parent's remaining children keep their order.
C16_RelocateMoves ==
    [][(/\ RelocateStep
        /\ Resolves(document, last'.node)
        /\ get_node_by_id(document, last'.node).parent # last'.parent
        /\ last'.parent # last'.node
        /\ last'.parent \notin Descendants(document, last'.node)
        /\ ~last'.panic)
       => LET N == last'.node
              P == last'.parent
              Q == get_node_by_id(document, N).parent
              Keep(x) == x # N
          IN /\ Resolves(document', P)
             /\ get_node_by_id(document', P).children # <<>>
             /\ get_node_by_id(document', P).children[
                    Len(get_node_by_id(document', P).children)] = N
             /\ get_node_by_id(document', N).parent = P
             /\ \A n \in {N} \cup Descendants(document, N) :
                    get_node_by_id(document', n).children
                        = get_node_by_id(document, n).children
             /\ (Q # None /\ Resolves(document, Q))
                    => get_node_by_id(document', Q).children
                          = SelectSeq(get_node_by_id(document, Q).children, Keep)]_vars

\* The step is a call of detach_node_from_parent.
DetachStep == calls' = calls + 1 /\ last'.op = "detach_node_from_parent"

\* C17: a detach_node_from_parent(N) that returns leaves N with no parent
\* and N out of its former parent's children, whose other children keep
\* their order (nothing changes when N had no parent); and no step removes a
\* node from the store: every NodeId that resolves goes on resolving and the
\* node count never decreases.
C17_DetachAndNoDeletion ==
    [][/\ (DetachStep /\ ~last'.panic)
          => LET N == last'.node
                 Q == get_node_by_id(document, N).parent
                 Keep(x) == x # N
             IN /\ get_node_by_id(document', N).parent = None
                /\ Q = None => document' = document
                /\ Q # None
                     => get_node_by_id(document', Q).children
                           = SelectSeq(get_node_by_id(document, Q).children, Keep)
       /\ Stored(document) \subseteq Stored(document')
       /\ count_nodes(document') >= count_nodes(document)]_vars

\* C17 witness: a node has been detached from a parent that keeps another
\* child, and the node is still stored.
C17_Witness ==
    /\ last.op = "detach_node_from_parent" /\ ~last.panic
    /\ last.parent # None /\ Resolves(document, last.parent)
    /\ Resolves(document, last.node)
    /\ get_node_by_id(document, last.node).parent = None
    /\ last.node \notin ChildIds(document, last.parent)
    /\ get_node_by_id(document, last.parent).children # <<>>

\* A candidate id is acceptable: it is not empty, holds no whitespace
\* character and holds an alphabetic character at some position.
Acceptable(v) ==
    /\ Len(v) > 0
    /\ \A i \in 1..Len(v) : v[i] \notin Whitespace
    /\ \E i \in 1..Len(v) : v[i] \in Alphabetic

\* C18: an id value is accepted exactly when it is acceptable, on both paths:
\* insert_attribute("id", v, element) returns Ok and leaves v indexed when v
\* is acceptable, and returns the validation error and changes nothing when
\* it is not; an element added with id v leaves v indexed when v is
\* acceptable, and leaves the index as it was when it is not.
C18_IdValidation ==
    [][/\ (/\ InsertAttributeStep
           /\ last'.key = "id"
           /\ Resolves(document, last'.node)
           /\ get_node_by_id(document, last'.node).kind = "Element")
          => IF Acceptable(last'.value)
             THEN /\ last'.res = Ok
                  /\ contains_key(document'.named_id_elements, last'.value)
                  /\ <<"id", last'.value>>
                         \in get_node_by_id(document', last'.node).attributes
             ELSE /\ last'.res = ErrValidation(last'.value)
                  /\ document' = document
       /\ (calls' = calls + 1 /\ last'.op = "add_node")
          => IF Acceptable(last'.value)
             THEN contains_key(document'.named_id_elements, last'.value)
             ELSE document'.named_id_elements = document.named_id_elements]_vars

\* C18 witness: insert_attribute has accepted and indexed "1a", whose
\* alphabetic character is not the first.
C18_Witness ==
    /\ last.op = "insert_attribute" /\ last.key = "id" /\ last.res = Ok
    /\ last.value = <<"1", "a">>
    /\ <<last.value, last.node>> \in document.named_id_elements

\* C19: insert_attribute("class", value, element) on a stored Element ends in
\* the fatal not-implemented outcome for every value, with the element's
\* attributes and the named-id index exactly as they were before the call.
C19_ClassFailsWithoutEffect ==
    [][(/\ InsertAttributeStep
        /\ last'.key = "class"
        /\ Resolves(document, last'.node)
        /\ get_node_by_id(document, last'.node).kind = "Element")
       => (last'.panic /\ AttrState(document') = AttrState(document))]_vars

\* C20: new_document_fragment(context) returns a document whose root is a
\* parentless document node and which holds an <html> element that is a
\* child of that root, with the quirks mode of the context node's document.
C20_FragmentShape ==
    (last.op = "new_document_fragment" /\ Completed) =>
        /\ Resolves(mirror, Root)
        /\ get_node_by_id(mirror, Root).kind = "Document"
        /\ get_node_by_id(mirror, Root).parent = None
        /\ \E html \in Stored(mirror) :
              /\ get_node_by_id(mirror, html).kind = "Element"
              /\ get_node_by_id(mirror, html).name = "html"
              /\ get_node_by_id(mirror, html).parent = Root
              /\ html \in ChildIds(mirror, Root)
        /\ mirror.quirks_mode = document.quirks_mode

\* A view of the document is outstanding.
Outstanding == borrows.readers > 0 \/ borrows.writer

\* The step asks for a mutable view: get_mut, a mutating handle operation, or
\* a flush that has a task to apply.
MutableRequestStep ==
    \/ calls' = calls + 1 /\ last'.op \in {"get_mut", "handle_create_element"}
    \/ last'.op = "view_flush" /\ queue.tasks # <<>>

\* C21: asking for a mutable view of the document while another view, read or
\* write, is outstanding fails at once and fatally: the document is not
\* changed, no view is handed out, and nothing is left waiting.
C21_SingleWriter ==
    [][(Outstanding /\ MutableRequestStep)
       => (/\ last'.panic
           /\ document' = document
           /\ borrows' = borrows
           /\ queue' = queue)]_vars

\* C21 witness: create_element through a handle has failed fatally while a
\* read view of a document that already holds an element was outstanding.
C21_Witness ==
    /\ last.op = "handle_create_element" /\ last.panic
    /\ borrows.readers > 0
    /\ count_nodes(document) > 1

\* C22: every Element node added by add_new_node / add_node, directly or by
\* a flush, carries in its payload the NodeId under which it is stored, from
\* the end of that call onwards.
C22_ElementSelfIdentity ==
    \A doc \in {document, mirror} :
        \A n \in Stored(doc) :
            get_node_by_id(doc, n).kind = "Element"
                => get_node_by_id(doc, n).node_id = n

\* C22 witness: a flush has stored an Element under an id past the first, and
\* the Element's payload holds that id.
C22_Witness ==
    /\ last.op = "flush"
    /\ \E n \in Stored(document) :
          /\ n > Root + 1
          /\ get_node_by_id(document, n).kind = "Element"
          /\ get_node_by_id(document, n).node_id = n

\* C23: has_cyclic_reference(node, candidate_parent) is true exactly when
\* candidate_parent is reached from node by one or more children links; it is
\* false when node does not resolve or has no children.
C23_CyclicReferenceIsReachability ==
    \A node_id \in NodeIds, parent_id \in NodeIds :
        has_cyclic_reference(document, node_id, parent_id)
            <=> parent_id \in Descendants(document, node_id)

\* C23 witness: the check finds a node two children links below another one,
\* and does not find the upper node below the lower one.
C23_Witness ==
    \E node_id \in Stored(document), parent_id \in Stored(document) :
        /\ has_cyclic_reference(document, node_id, parent_id)
        /\ parent_id \notin ChildIds(document, node_id)
        /\ ~has_cyclic_reference(document, parent_id, node_id)

\* C24: in every reachable state each entry of the named-id index maps a
\* string that passes id validation to the NodeId of a stored Element.
C24_IndexSoundness ==
    \A e \in document.named_id_elements :
        /\ validate_id_attribute_value(e[1])
        /\ Resolves(document, e[2])
        /\ get_node_by_id(document, e[2]).kind = "Element"

\* C24 witness: the index holds two entries, the latest made by
\* insert_attribute, while a comment node is stored too.
C24_Witness ==
    /\ Cardinality(document.named_id_elements) >= 2
    /\ last.op = "insert_attribute" /\ last.key = "id" /\ last.res = Ok
    /\ <<last.value, last.node>> \in document.named_id_elements
    /\ \E n \in Stored(document) : get_node_by_id(document, n).kind = "Comment"

\* C25: relocate(N, P) where P is N itself or a descendant of N, and not the
\* current parent of N, changes nothing: N keeps its parent and its index in
\* that parent's children.
C25_RelocateIntoSubtree ==
    [][(/\ RelocateStep
        /\ Resolves(document, last'.node)
        /\ (last'.parent = last'.node
               \/ last'.parent \in Descendants(document, last'.node))
        /\ get_node_by_id(document, last'.node).parent # last'.parent)
       => (/\ ~last'.panic
           /\ get_node_by_id(document', last'.node).parent
                 = get_node_by_id(document, last'.node).parent
           /\ \A p \in Stored(document) :
                 get_node_by_id(document', p).children
                     = get_node_by_id(document, p).children)]_vars

\* C26: in every reachable state, if the named-id index maps s to n then n is
\* an Element whose current "id" attribute is s.
C26_IndexAttributeAgreement ==
    \A e \in document.named_id_elements :
        /\ Resolves(document, e[2])
        /\ get_node_by_id(document, e[2]).kind = "Element"
        /\ <<"id", e[1]>> \in get_node_by_id(document, e[2]).attributes

\* C27: in every reachable state every NodeId stored as a node's parent and
\* every NodeId in a node's children resolves to a stored node; an attach or
\* add_node whose parent id does not resolve records no parent and reports
\* no success.
C27_NoDanglingReferences ==
    Completed =>
        \A n \in Stored(document) :
            /\ ParentIds(document, n) \subseteq Stored(document)
            /\ ChildIds(document, n) \subseteq Stored(document)

\* The places <<p, i>> of all children lists of doc that hold n
Places(doc, n) ==
    {pi \in Stored(doc) \X (1..count_nodes(doc)) :
        /\ pi[2] <= Len(get_node_by_id(doc, pi[1]).children)
        /\ get_node_by_id(doc, pi[1]).children[pi[2]] = n}

\* The document is a tree under its root.
WellFormed(doc) ==
    /\ \A n \in Stored(doc) : (get_node_by_id(doc, n).parent = None) <=> (n = Root)
    /\ \A c \in Stored(doc), p \in Stored(doc) :
          (c \in ChildIds(doc, p)) <=> (get_node_by_id(doc, c).parent = p)
    /\ \A n \in Stored(doc) \ {Root} : Cardinality(Places(doc, n)) = 1
    /\ Places(doc, Root) = {}
    /\ Stored(doc) = {Root} \cup Descendants(doc, Root)

\* C28: in a new document mutated only by the handle's create_element,
\* create_text and create_comment under stored parents, after every call the
\* root is the only node without a parent, parent and children links agree,
\* each non-root NodeId occurs exactly once in all children lists, every
\* stored node is reachable from the root, and create_element returns the
\* store's peek_next_id of before the call, the next id moving up.
C28_BuildKeepsTree ==
    [][/\ ~last'.panic
       /\ WellFormed(document')
       /\ (last'.op = "create_element") => last'.node = peek_next_id(document)
       /\ peek_next_id(document') > peek_next_id(document)]_vars

\* C28 witness: a text node has been created three links below the root.
C28_Witness ==
    /\ last.op = "create_text"
    /\ \E a \in ChildIds(document, Root) :
          \E b \in ChildIds(document, a) : last.node \in ChildIds(document, b)
    /\ WellFormed(document)

\* C29: the children links never form a cycle in a reachable state, so the
\* recursive descent of has_cyclic_reference comes to an end in every attach
\* and relocate.
C29_ChildrenGraphAcyclic ==
    \A n \in NodeIds : n \notin Descendants(document, n)

\* C29 witness: a relocate has put a node below a child of the root, a chain
\* of two children links that the cycle check of a later attach descends.
C29_Witness ==
    /\ last.op = "relocate" /\ ~last.panic
    /\ last.parent \in ChildIds(document, Root)
    /\ last.node \in ChildIds(document, last.parent)
    /\ has_cyclic_reference(document, Root, last.node)

\* C30: a flush that returns leaves the queue empty, having applied exactly
\* the tasks enqueued since the flush before it, each once; an enqueue call
\* adds its one task behind the pending ones and applies nothing; a flush of
\* an empty queue changes nothing and returns no errors.
C30_ExactlyOnceReplay ==
    [][/\ (last'.op = "flush" /\ ~last'.panic)
          => /\ queue'.tasks = <<>>
             /\ queue'.next_node_id = queue.next_node_id
             /\ document' = Replayed(document, queue.tasks, Len(queue.tasks))
             /\ count_nodes(document')
                   = count_nodes(document) + Cardinality(CreateTasks)
       /\ (last'.op = "flush" /\ queue.tasks = <<>>)
          => (document' = document /\ last'.errors = <<>> /\ ~last'.panic)
       /\ (last'.op \in QueueOps)
          => /\ document' = document
             /\ Len(queue'.tasks) = Len(queue.tasks) + 1
             /\ SubSeq(queue'.tasks, 1, Len(queue.tasks)) = queue.tasks]_vars

\* C30 witness: every call the run allows has queued a create task, the
\* queue has been flushed empty, and the store holds the root and one node
\* per task.
C30_Witness ==
    /\ last.op = "flush" /\ ~last.panic
    /\ queue.tasks = <<>>
    /\ calls = MaxTasks
    /\ count_nodes(document) = 1 + MaxTasks

====
